---- MODULE Spec2Model ----
(***************************************************************************)
(* Model of 01_get_activity.py: the Link-header parser, the rate-limited   *)
(* GET of GitHubClient._request, the paginating generator, and the export  *)
(* run of main() (organization resolution, the 7 queries per organization, *)
(* normalization, deduplication, output writing).                          *)
(*                                                                         *)
(* Text is modelled as follows.  A Link header (and a URL inside it) is a  *)
(* sequence of lexical tokens; the empty sequence is the empty string and  *)
(* also stands for Python's None wherever the code only tests truthiness.  *)
(* Scalar JSON values are TLA+ strings; None is the distinguished string   *)
(* below, which no field value of the simulated server equals.             *)
(***************************************************************************)
EXTENDS Integers, Sequences, FiniteSets, TLC

VARIABLES
    \* parse_next_link applied to one header
    lhSegs, lhHeader, lhResult, lhPc,
    \* organization resolution applied to one membership listing
    roMembers, roWanted, roOrgs, roPc,
    \* one call of GitHubClient._request against a simulated server and clock
    now, rqPc, rqUrl, rqParams, rqSends, rqSentAt, rqResp, rqCause, rqRetries,
    rqSleepFor, rqSleptAt, rqWake,
    \* one export run of main(): inputs, position, the paginating generator in
    \* progress (pg*), the aggregate, the output files
    server, token, wanted, pc, errKind, memberships, orgs, orgIdx, kindIdx,
    pgUrl, pgFirst, pgState, pgPending, pgLink, pgLinkSegs, pgReqs, pgYielded, pgServed,
    results, seen, resultSrc, queryLog, itemsLeft, jsonFile, csvFile

linkVars == <<lhSegs, lhHeader, lhResult, lhPc>>
orgVars == <<roMembers, roWanted, roOrgs, roPc>>
reqVars == <<now, rqPc, rqUrl, rqParams, rqSends, rqSentAt, rqResp, rqCause, rqRetries,
             rqSleepFor, rqSleptAt, rqWake>>
pgVars == <<pgUrl, pgFirst, pgState, pgPending, pgLink, pgLinkSegs, pgReqs, pgYielded, pgServed>>
aggVars == <<results, seen, resultSrc>>
fileVars == <<jsonFile, csvFile>>
mainVars == <<server, token, wanted, pc, errKind, memberships, orgs, orgIdx, kindIdx,
              pgVars, aggVars, queryLog, itemsLeft, fileVars>>
vars == <<linkVars, orgVars, reqVars, mainVars>>

None == "<None>"

\* Python truthiness of an optional string: None and "" are falsy.
Falsy(v) == v = None \/ v = ""

RECURSIVE SeqsUpTo(_, _)
SeqsUpTo(S, n) ==
    IF n = 0 THEN {<<>>}
    ELSE LET shorter == SeqsUpTo(S, n - 1)
         IN shorter \cup {Append(s, x) : s \in {t \in shorter : Len(t) = n - 1}, x \in S}

(***************************************************************************)
(* Link header                                                             *)
(***************************************************************************)
LT == "<"
GT == ">"
SEMI == ";"
SP == " "
COMMA == ","
REL_NEXT == "rel=\"next\""
REL_PREV == "rel=\"prev\""
REL_LAST == "rel=\"last\""

NoUrl == <<>>

\* str.split(","): the parts of s between its commas (always at least one part).
RECURSIVE SplitComma(_)
SplitComma(s) ==
    IF \A i \in 1..Len(s) : s[i] # COMMA THEN <<s>>
    ELSE LET c == CHOOSE i \in 1..Len(s) : s[i] = COMMA /\ \A j \in 1..(i - 1) : s[j] # COMMA
         IN <<SubSeq(s, 1, c - 1)>> \o SplitComma(SubSeq(s, c + 1, Len(s)))

\* Where the closing ">" of a match starting at i lies: [^>]+ cannot cross a ">".
CloseAt(p, i) ==
    IF \E j \in (i + 1)..Len(p) : p[j] = GT
    THEN CHOOSE j \in (i + 1)..Len(p) : p[j] = GT /\ \A k \in (i + 1)..(j - 1) : p[k] # GT
    ELSE 0

\* The token after ";" and any run of whitespace that starts at position k.
RECURSIVE SkipSpace(_, _)
SkipSpace(p, k) == IF k <= Len(p) /\ p[k] = SP THEN SkipSpace(p, k + 1) ELSE k

\* MatchAt without the rel="next" test: any relation matches.
MatchAt_AnyRel(p, i) ==
    LET j == CloseAt(p, i)
    IN p[i] = LT /\ j > i + 1 /\ j + 1 <= Len(p) /\ p[j + 1] = SEMI

\* LINK_NEXT_RE = <([^>]+)>;\s*rel="next" matched with its "<" at position i of p.
MatchAt(p, i) ==
    LET j == CloseAt(p, i)
    IN /\ p[i] = LT
       /\ j > i + 1
       /\ j + 1 <= Len(p)
       /\ p[j + 1] = SEMI
       /\ LET k == SkipSpace(p, j + 2) IN k <= Len(p) /\ p[k] = REL_NEXT

\* LINK_NEXT_RE.search(part): group(1) of the leftmost match, NoUrl when none.
SearchNext(p) ==
    IF \E i \in 1..Len(p) : MatchAt(p, i)
    THEN LET i == CHOOSE i \in 1..Len(p) : MatchAt(p, i) /\ \A h \in 1..(i - 1) : ~MatchAt(p, h)
         IN SubSeq(p, i + 1, CloseAt(p, i) - 1)
    ELSE NoUrl

RECURSIVE FirstMatch(_)
FirstMatch(parts) ==
    IF parts = <<>> THEN NoUrl
    ELSE IF SearchNext(Head(parts)) # NoUrl THEN SearchNext(Head(parts))
    ELSE FirstMatch(Tail(parts))

parse_next_link(link_header) ==
    IF link_header = <<>> THEN NoUrl ELSE FirstMatch(SplitComma(link_header))

\* A well-formed header: segments <url>; rel="name" joined by commas.
RenderSeg(seg, spaced) ==
    <<LT>> \o seg.url \o <<GT, SEMI>> \o (IF spaced THEN <<SP>> ELSE <<>>) \o <<seg.rel>>

RECURSIVE Render(_, _)
Render(segs, spaced) ==
    IF segs = <<>> THEN <<>>
    ELSE IF Len(segs) = 1 THEN RenderSeg(segs[1], spaced)
    ELSE RenderSeg(segs[1], spaced) \o <<COMMA>> \o (IF spaced THEN <<SP>> ELSE <<>>)
            \o Render(Tail(segs), spaced)

HasNext(segs) == \E i \in 1..Len(segs) : segs[i].rel = REL_NEXT

FirstNextUrl(segs) ==
    segs[CHOOSE i \in 1..Len(segs) :
            segs[i].rel = REL_NEXT /\ \A h \in 1..(i - 1) : segs[h].rel # REL_NEXT].url

HasComma(u) == \E i \in 1..Len(u) : u[i] = COMMA

MaxSegs == 2
MaxUrlLen == 2
MaxRaw == 3

URL_TOKENS == {"x", COMMA}
RELS == {REL_NEXT, REL_PREV, REL_LAST}
RAW_TOKENS == {LT, GT, SEMI, SP, COMMA, "x", REL_NEXT, REL_PREV}
LinkUrls == SeqsUpTo(URL_TOKENS, MaxUrlLen) \ {<<>>}
LinkSegs == [url : LinkUrls, rel : RELS]

\* lhSegs is the list of segments a well-formed header was rendered from;
\* a raw header (arbitrary tokens) has lhSegs = <<>> and lhPc = "raw".
LinkInit ==
    /\ lhResult = NoUrl
    /\ \/ /\ lhPc = "wellformed"
          /\ lhSegs \in SeqsUpTo(LinkSegs, MaxSegs)
          /\ \E spaced \in BOOLEAN : lhHeader = Render(lhSegs, spaced)
       \/ /\ lhPc = "raw"
          /\ lhSegs = <<>>
          /\ lhHeader \in SeqsUpTo(RAW_TOKENS, MaxRaw)

ParseWellFormed ==
    /\ lhPc = "wellformed"
    /\ lhResult' = parse_next_link(lhHeader)
    /\ lhPc' = "parsed"
    /\ UNCHANGED <<lhSegs, lhHeader, orgVars, reqVars, mainVars>>

ParseRaw ==
    /\ lhPc = "raw"
    /\ lhResult' = parse_next_link(lhHeader)
    /\ lhPc' = "parsedraw"
    /\ UNCHANGED <<lhSegs, lhHeader, orgVars, reqVars, mainVars>>

(***************************************************************************)
(* Organization resolution (main, lines 163-169)                           *)
(***************************************************************************)
\* FilterWanted building its result in reverse.
RECURSIVE FilterWanted_Reversed(_, _)
FilterWanted_Reversed(listed, allow) ==
    IF listed = <<>> THEN <<>>
    ELSE IF Head(listed) \in allow
    THEN FilterWanted_Reversed(Tail(listed), allow) \o <<Head(listed)>>
    ELSE FilterWanted_Reversed(Tail(listed), allow)

\* [o for o in orgs if o in wanted], evaluated left to right.
RECURSIVE FilterWanted(_, _)
FilterWanted(listed, allow) ==
    IF listed = <<>> THEN <<>>
    ELSE IF Head(listed) \in allow
    THEN <<Head(listed)>> \o FilterWanted(Tail(listed), allow)
    ELSE FilterWanted(Tail(listed), allow)

\* args.org is None without --org (modelled by the empty set, equally falsy);
\* otherwise wanted = set(args.org).
ResolveOrgs(listed, allow) ==
    IF allow # {} THEN FilterWanted(listed, allow) ELSE listed

MaxMembers == 3
MEMBER_ORGS == {"A", "B", "C"}
ALLOW_ORGS == {"A", "B", "D"}

OrgInit ==
    /\ roPc = "listed"
    /\ roMembers \in SeqsUpTo(MEMBER_ORGS, MaxMembers)
    /\ roWanted \in SUBSET ALLOW_ORGS
    /\ roOrgs = <<>>

ResolveStep ==
    /\ roPc = "listed"
    /\ roOrgs' = ResolveOrgs(roMembers, roWanted)
    /\ roPc' = "resolved"
    /\ UNCHANGED <<roMembers, roWanted, linkVars, reqVars, mainVars>>

(***************************************************************************)
(* GitHubClient._request (lines 52-74)                                     *)
(*                                                                         *)
(* The clock `now` counts half seconds, so that int(time.time()) truncates.*)
(***************************************************************************)
TicksPerSecond == 2
NETWORK_RETRY_SECONDS == 5
RATE_LIMIT_MARGIN == 5

MaxNow == 20
MaxSends == 3

Max(a, b) == IF a >= b THEN a ELSE b

\* url_or_path.startswith("http") ? url_or_path : urljoin(API_BASE, url_or_path.lstrip("/"))
REQUEST_TARGETS == {"/user", "https://api.github.com/search/issues?q=x&page=2"}
ResolveUrl(url_or_path) ==
    CASE url_or_path = "/user" -> "https://api.github.com/user"
      [] OTHER -> url_or_path

\* A response: status, the X-RateLimit-Remaining header (None when absent) and the
\* X-RateLimit-Reset header (<<>> when absent, else <<epoch seconds>>).
Resp(status, remaining, reset) == [status |-> status, remaining |-> remaining, reset |-> reset]
NoResp == Resp(0, None, <<>>)
RESPONSES ==
    {Resp(s, None, <<>>) : s \in {101, 200, 204, 304, 403, 404, 500}}
    \cup {Resp(403, "1", <<4>>), Resp(200, "0", <<4>>), Resp(429, "0", <<4>>)}
    \cup {Resp(403, "0", r) : r \in {<<>>, <<2>>, <<4>>}}

\* r.status_code == 403 and r.headers.get("X-RateLimit-Remaining") == "0"
RateLimited(r) == r.status = 403 /\ r.remaining = "0"

\* int(r.headers.get("X-RateLimit-Reset", "0"))
ResetOf(r) == IF r.reset = <<>> THEN 0 ELSE r.reset[1]

\* SleepFor without the safety margin.
SleepFor_NoMargin(reset, t) == Max(0, reset - (t \div TicksPerSecond))

\* max(0, reset - int(time.time()) + 5), with the clock reading t in ticks
SleepFor(reset, t) == Max(0, reset - (t \div TicksPerSecond) + RATE_LIMIT_MARGIN)

\* raise_for_status raising for server errors only.
RaisesForStatus_ServerOnly(status) == 500 <= status /\ status < 600

\* requests.Response.raise_for_status raises HTTPError for 400 <= status < 600 only.
RaisesForStatus(status) == 400 <= status /\ status < 600

ReqInit ==
    /\ now = 0
    /\ rqPc = "send"
    /\ rqUrl \in {ResolveUrl(t) : t \in REQUEST_TARGETS}
    /\ rqParams \in {"none", "q"}
    /\ rqSends = <<>>
    /\ rqSentAt = 0
    /\ rqResp = NoResp
    /\ rqCause = NoResp
    /\ rqRetries = 0
    /\ rqSleepFor = 0
    /\ rqSleptAt = 0
    /\ rqWake = 0

\* Time passes while the call is in progress.
Tick ==
    /\ rqPc \in {"send", "wait", "sleep"}
    /\ now < MaxNow
    /\ now' = now + 1
    /\ UNCHANGED <<rqPc, rqUrl, rqParams, rqSends, rqSentAt, rqResp, rqCause, rqRetries,
                   rqSleepFor, rqSleptAt, rqWake, linkVars, orgVars, mainVars>>

\* self.s.get(url, params=params) is issued.
SendGet ==
    /\ rqPc = "send"
    /\ Len(rqSends) < MaxSends
    /\ rqSends' = Append(rqSends, [url |-> rqUrl, params |-> rqParams])
    /\ rqSentAt' = now
    /\ rqPc' = "wait"
    /\ UNCHANGED <<now, rqUrl, rqParams, rqResp, rqCause, rqRetries, rqSleepFor, rqSleptAt,
                   rqWake, linkVars, orgVars, mainVars>>

\* requests.RequestException: warn, time.sleep(5), continue.
NetworkError ==
    /\ rqPc = "wait"
    /\ rqPc' = "sleep"
    /\ rqCause' = NoResp
    /\ rqRetries' = rqRetries + 1
    /\ rqSleepFor' = NETWORK_RETRY_SECONDS
    /\ rqSleptAt' = now
    /\ rqWake' = now + NETWORK_RETRY_SECONDS * TicksPerSecond
    /\ UNCHANGED <<now, rqUrl, rqParams, rqSends, rqSentAt, rqResp, linkVars, orgVars, mainVars>>

\* A 403 with no quota left: compute the wait, time.sleep(sleep_for), continue.
RateLimitSleep ==
    /\ rqPc = "wait"
    /\ \E r \in RESPONSES :
        /\ RateLimited(r)
        /\ rqResp' = r
        /\ rqCause' = r
        /\ rqSleepFor' = SleepFor(ResetOf(r), now)
        /\ rqWake' = now + SleepFor(ResetOf(r), now) * TicksPerSecond
    /\ rqSleptAt' = now
    /\ rqRetries' = rqRetries + 1
    /\ rqPc' = "sleep"
    /\ UNCHANGED <<now, rqUrl, rqParams, rqSends, rqSentAt, linkVars, orgVars, mainVars>>

\* time.sleep returns no earlier than asked; the loop then sends again.
WakeUp ==
    /\ rqPc = "sleep"
    /\ now >= rqWake
    /\ rqPc' = "send"
    /\ UNCHANGED <<now, rqUrl, rqParams, rqSends, rqSentAt, rqResp, rqCause, rqRetries,
                   rqSleepFor, rqSleptAt, rqWake, linkVars, orgVars, mainVars>>

\* r.raise_for_status() raises: the HTTPError leaves _request.
RaiseStatus ==
    /\ rqPc = "wait"
    /\ \E r \in RESPONSES :
        /\ ~RateLimited(r)
        /\ RaisesForStatus(r.status)
        /\ rqResp' = r
    /\ rqPc' = "raised"
    /\ UNCHANGED <<now, rqUrl, rqParams, rqSends, rqSentAt, rqCause, rqRetries, rqSleepFor,
                   rqSleptAt, rqWake, linkVars, orgVars, mainVars>>

\* r.raise_for_status() returns: return r.
ReturnResponse ==
    /\ rqPc = "wait"
    /\ \E r \in RESPONSES :
        /\ ~RateLimited(r)
        /\ ~RaisesForStatus(r.status)
        /\ rqResp' = r
    /\ rqPc' = "returned"
    /\ UNCHANGED <<now, rqUrl, rqParams, rqSends, rqSentAt, rqCause, rqRetries, rqSleepFor,
                   rqSleptAt, rqWake, linkVars, orgVars, mainVars>>

(***************************************************************************)
(* main(): normalization and deduplication (lines 171-179, 236-248,        *)
(* 259-271)                                                                *)
(***************************************************************************)
LOGIN == "alice"
DATE_RANGE == "2024-01-01..2024-01-31"
COMMITS == "commits"
ISSUE_KINDS == <<"prs_opened", "prs_merged", "prs_reviewed", "prs_commented",
                 "issues_opened", "involves_me">>
\* KINDS with the commits query first.
KINDS_CommitsFirst == <<COMMITS>> \o ISSUE_KINDS

\* per organization: the six issue/PR queries in list order, then the commits query
KINDS == ISSUE_KINDS \o <<COMMITS>>

\* The query strings of lines 210-228 and 253.
Query(kind, org) ==
    CASE kind = "prs_opened" ->
            "org:" \o org \o " type:pr author:" \o LOGIN \o " created:" \o DATE_RANGE
      [] kind = "prs_merged" ->
            "org:" \o org \o " type:pr author:" \o LOGIN \o " is:merged merged:" \o DATE_RANGE
      [] kind = "prs_reviewed" ->
            "org:" \o org \o " type:pr reviewed-by:" \o LOGIN \o " updated:" \o DATE_RANGE
      [] kind = "prs_commented" ->
            "org:" \o org \o " type:pr commenter:" \o LOGIN \o " updated:" \o DATE_RANGE
      [] kind = "issues_opened" ->
            "org:" \o org \o " type:issue author:" \o LOGIN \o " created:" \o DATE_RANGE
      [] kind = "involves_me" ->
            "org:" \o org \o " involves:" \o LOGIN \o " updated:" \o DATE_RANGE
      [] kind = COMMITS ->
            "org:" \o org \o " author:" \o LOGIN \o " committer-date:" \o DATE_RANGE

NoParams == <<>>
MembershipParams == <<"state", "active", "per_page", "100">>
SearchParams(kind, org) == <<"q", Query(kind, org), "per_page", "100">>

MEMBERSHIPS_PATH == <<"/user/memberships/orgs">>
SearchPath(kind) == IF kind = COMMITS THEN <<"/search/commits">> ELSE <<"/search/issues">>

REPO_API_URL == "https://api.github.com/repos/acme/widgets"
REPO_FULL_NAME == "acme/widgets"

\* repo_full_name_from_repository_url, on the repository URLs of the simulated server:
\* "" (the item.get default) has no "/repos/" and is returned unchanged.
repo_full_name_from_repository_url(repository_url) ==
    CASE repository_url = REPO_API_URL -> REPO_FULL_NAME
      [] OTHER -> repository_url

\* str.splitlines() on the commit messages of the simulated server.
MSG_TWO_PARAGRAPHS == "fix bug\n\ndetails"
SplitLines(text) ==
    CASE text = "" -> <<>>
      [] text = MSG_TWO_PARAGRAPHS -> <<"fix bug", "", "details">>
      [] OTHER -> <<text>>

\* a or b on optional strings
OrElse(a, b) == IF Falsy(a) THEN b ELSE a

\* Lines 236-247.
NormalizeIssue(kind, org, item) ==
    [kind |-> kind,
     org |-> org,
     repo |-> repo_full_name_from_repository_url(item.repository_url),
     number |-> item.number,
     title |-> item.title,
     state |-> item.state,
     url |-> item.html_url,
     created_at |-> item.created_at,
     updated_at |-> item.updated_at,
     closed_at |-> item.closed_at]

\* Line 248: rec["url"] or f"{org}:{kind}:{rec['repo']}#{rec['number']}"
IssueFallback(rec) ==
    rec.org \o ":" \o rec.kind \o ":" \o rec.repo \o "#" \o ToString(rec.number)

IssueKey(rec) == OrElse(rec.url, IssueFallback(rec))

\* A commits-search item is kept flat: commit, author and repository say whether the
\* nested object is "missing", "null" or an "object"; message, author_date and
\* full_name are what the object holds when it is one.
\* (item.get("commit", {}) or {}).get("message")
CommitMessage(item) == IF item.commit = "object" THEN item.message ELSE None

\* (commit.get("author") or {}).get("date")
CommitAuthorDate(item) ==
    IF item.commit = "object" /\ item.author = "object" THEN item.author_date ELSE None

\* (item.get("repository") or {}).get("full_name")
CommitRepo(item) == IF item.repository = "object" THEN item.full_name ELSE None

\* (commit.get("message") or "").splitlines()
MessageLines(item) == SplitLines(OrElse(CommitMessage(item), ""))

\* Line 267 indexes [0]: an IndexError when there is no line.
CommitRaises(item) == MessageLines(item) = <<>>

\* Lines 259-270, for an item that does not raise.
NormalizeCommit(org, item) ==
    [kind |-> COMMITS,
     org |-> org,
     repo |-> CommitRepo(item),
     sha |-> item.sha,
     message |-> MessageLines(item)[1],
     url |-> item.html_url,
     author_date |-> CommitAuthorDate(item)]

JsonStr(v) == IF v = None THEN "null" ELSE "\"" \o v \o "\""

\* json.dumps(rec, sort_keys=True)
JsonDumps(rec) ==
    "{\"author_date\": " \o JsonStr(rec.author_date)
      \o ", \"kind\": " \o JsonStr(rec.kind)
      \o ", \"message\": " \o JsonStr(rec.message)
      \o ", \"org\": " \o JsonStr(rec.org)
      \o ", \"repo\": " \o JsonStr(rec.repo)
      \o ", \"sha\": " \o JsonStr(rec.sha)
      \o ", \"url\": " \o JsonStr(rec.url) \o "}"

\* CommitKey preferring the URL to the SHA.
CommitKey_UrlFirst(rec) == OrElse(rec.url, OrElse(rec.sha, JsonDumps(rec)))

\* Line 271: sha or rec["url"] or json.dumps(rec, sort_keys=True)
CommitKey(rec) == OrElse(rec.sha, OrElse(rec.url, JsonDumps(rec)))

UniqueKey(rec) == IF rec.kind = COMMITS THEN CommitKey(rec) ELSE IssueKey(rec)

\* AddResults without the seen test.
AddResults_NoCheck(res, sn, rec, unique_key) == Append(res, rec)

\* add_record (lines 174-179): the new values of results and seen.
AddResults(res, sn, rec, unique_key) ==
    IF <<rec.kind, unique_key>> \in sn THEN res ELSE Append(res, rec)

AddSeen(sn, rec, unique_key) == sn \cup {<<rec.kind, unique_key>>}

FIELDNAMES == {"kind", "org", "repo", "number", "title", "state", "url", "created_at",
               "updated_at", "closed_at", "sha", "message", "author_date"}

\* Line 300: {k: r.get(k) for k in fieldnames}
CsvRow(r) == [k \in FIELDNAMES |-> IF k \in DOMAIN r THEN r[k] ELSE None]

(***************************************************************************)
(* The simulated server of an export run                                   *)
(***************************************************************************)
MaxOrgs == 2
MaxPages == 2
MaxItems == 2

U1 == "https://github.com/acme/widgets/pull/42"
U2 == "https://github.com/acme/widgets/issues/7"
UC == "https://github.com/acme/widgets/commit/s1"

RUN_ORGS == {"A", "B"}
RUN_WANTED == {{}, {"B", "D"}}

MembershipItems == {[login |-> o] : o \in RUN_ORGS}

IssueItem(url, title) ==
    [html_url |-> url, title |-> title, number |-> 42, repository_url |-> REPO_API_URL,
     state |-> "open", created_at |-> "2024-01-02", updated_at |-> "2024-01-03",
     closed_at |-> None]

CommitItem(sha, url, commit, message, author, repository) ==
    [sha |-> sha, html_url |-> url, commit |-> commit, message |-> message,
     author |-> author, author_date |-> "2024-01-04", repository |-> repository,
     full_name |-> REPO_FULL_NAME]

\* The Link headers a server answers with, as segment lists.
Seg(url, rel) == [url |-> url, rel |-> rel]

\* Two simulated servers.  "paged" spreads items over several pages, with every shape
\* of Link header, and has activity in two of the issue/PR kinds and in the commits;
\* "varied" answers every query on one page, with items of many shapes in those two
\* kinds and in the commits, and one pull request in each of the other kinds.
SERVERS == {"paged", "varied"}
ACTIVE_KINDS == {"prs_opened", "involves_me"}

IssueItems(kind) ==
    IF server = "varied" /\ kind \in ACTIVE_KINDS
    THEN {IssueItem(U1, "t1"), IssueItem(U1, "t2"), IssueItem(U2, "t1"),
          IssueItem(None, "t1"), IssueItem("", "t2")}
    ELSE IF server = "varied" THEN {IssueItem(U1, "t1")}
    ELSE IF kind \in ACTIVE_KINDS THEN {IssueItem(None, "t1")}
    ELSE {}

CommitItems ==
    IF server = "varied"
    THEN {CommitItem(sha, UC, "object", MSG_TWO_PARAGRAPHS, "object", "object") :
            sha \in {"s1", "s2", None}}
         \cup {CommitItem("s1", None, "object", "fix bug", "null", "null"),
               CommitItem(None, None, "object", "fix bug", "missing", "object"),
               CommitItem("s1", UC, "missing", None, "missing", "object"),
               CommitItem("s1", UC, "null", None, "missing", "object"),
               CommitItem("s1", UC, "object", None, "object", "object"),
               CommitItem("s1", UC, "object", "", "object", "object")}
    ELSE {CommitItem("s1", UC, "object", MSG_TWO_PARAGRAPHS, "object", "object"),
          CommitItem("s2", UC, "object", "", "object", "object")}

ServerLinks ==
    IF server = "varied" THEN {<<>>}
    ELSE {<<>>,
          <<Seg(<<"page2">>, REL_NEXT)>>,
          <<Seg(<<"page1">>, REL_PREV), Seg(<<"page3">>, REL_NEXT), Seg(<<"page9">>, REL_LAST)>>,
          <<Seg(<<"page1">>, REL_PREV), Seg(<<"page1">>, "rel=\"first\"")>>,
          <<Seg(<<"q=a", COMMA, "b&page=2">>, REL_NEXT)>>}

(***************************************************************************)
(* main(): the run                                                         *)
(***************************************************************************)
NoFile == [written |-> FALSE, rows |-> <<>>]

CurOrg == orgs[orgIdx]
CurKind == KINDS[kindIdx]

AtRequest == pc = "me" \/ (pc \in {"memberships", "search"} /\ pgState = "running")

RunInit ==
    /\ server \in SERVERS
    /\ token \in BOOLEAN
    /\ wanted \in RUN_WANTED
    /\ pc = "start"
    /\ errKind = None
    /\ memberships = <<>>
    /\ orgs = <<>>
    /\ orgIdx = 0
    /\ kindIdx = 0
    /\ pgUrl = NoUrl
    /\ pgFirst = TRUE
    /\ pgState = "idle"
    /\ pgPending = <<>>
    /\ pgLink = <<>>
    /\ pgLinkSegs = <<>>
    /\ pgReqs = <<>>
    /\ pgYielded = <<>>
    /\ pgServed = <<>>
    /\ results = <<>>
    /\ seen = {}
    /\ resultSrc = <<>>
    /\ queryLog = <<>>
    /\ itemsLeft = MaxItems
    /\ jsonFile = NoFile
    /\ csvFile = NoFile

\* GITHUB_TOKEN is not set: return 2.
MissingToken ==
    /\ pc = "start"
    /\ ~token
    /\ pc' = "exit2"
    /\ UNCHANGED <<server, token, wanted, errKind, memberships, orgs, orgIdx, kindIdx,
                   pgVars, aggVars, queryLog, itemsLeft, fileVars, linkVars, orgVars, reqVars>>

\* The client is built; gh.me() is about to be requested.
StartRun ==
    /\ pc = "start"
    /\ token
    /\ pc' = "me"
    /\ UNCHANGED <<server, token, wanted, errKind, memberships, orgs, orgIdx, kindIdx,
                   pgVars, aggVars, queryLog, itemsLeft, fileVars, linkVars, orgVars, reqVars>>

\* _request meets a network error or an exhausted rate limit: it sleeps and sends the
\* same request again (SpecReq follows that loop); nothing main holds changes.
RequestRetry ==
    /\ AtRequest
    /\ UNCHANGED vars

\* RequestFails flushing what was collected to the JSON file.
RequestFails_WritesPartial ==
    /\ AtRequest
    /\ pc' = "error"
    /\ errKind' = "HTTPError"
    /\ jsonFile' = [written |-> TRUE, rows |-> results]
    /\ UNCHANGED <<server, token, wanted, memberships, orgs, orgIdx, kindIdx,
                   pgVars, aggVars, queryLog, itemsLeft, csvFile, linkVars, orgVars, reqVars>>

\* _request raises the HTTPError of raise_for_status: nothing in main catches it.
RequestFails ==
    /\ AtRequest
    /\ pc' = "error"
    /\ errKind' = "HTTPError"
    /\ UNCHANGED <<server, token, wanted, memberships, orgs, orgIdx, kindIdx,
                   pgVars, aggVars, queryLog, itemsLeft, fileVars, linkVars, orgVars, reqVars>>

\* gh.me() returns; list(gh.paginate("/user/memberships/orgs", ...)) starts.
MeReturns ==
    /\ pc = "me"
    /\ pc' = "memberships"
    /\ pgUrl' = MEMBERSHIPS_PATH
    /\ pgFirst' = TRUE
    /\ pgState' = "running"
    /\ pgPending' = <<>>
    /\ pgLink' = <<>>
    /\ pgLinkSegs' = <<>>
    /\ pgReqs' = <<>>
    /\ pgYielded' = <<>>
    /\ pgServed' = <<>>
    /\ UNCHANGED <<server, token, wanted, errKind, memberships, orgs, orgIdx, kindIdx,
                   aggVars, queryLog, itemsLeft, fileVars, linkVars, orgVars, reqVars>>

RECURSIVE Logins(_)
Logins(ms) == IF ms = <<>> THEN <<>> ELSE <<Head(ms).login>> \o Logins(Tail(ms))

\* What the server may put on the next page of the query in progress (a membership
\* listing names an organization once).
PageChoices ==
    IF pc = "memberships"
    THEN {p \in SeqsUpTo(MembershipItems, MaxOrgs - Len(memberships)) :
            LET listing == Logins(memberships \o p)
            IN \A i, j \in 1..Len(listing) : i < j => listing[i] # listing[j]}
    ELSE IF CurKind = COMMITS THEN SeqsUpTo(CommitItems, itemsLeft)
    ELSE SeqsUpTo(IssueItems(CurKind), itemsLeft)

\* The params paginate was called with.
SuppliedParams ==
    IF pc = "memberships" THEN MembershipParams ELSE SearchParams(CurKind, CurOrg)

\* RequestParams sending the params with every page.
RequestParams_Always(first) == SuppliedParams

\* Line 87: params if first else None
RequestParams(first) == IF first THEN SuppliedParams ELSE NoParams

\* paginate (lines 86-90): one request succeeds; its page is decoded.
FetchPage ==
    /\ pc \in {"memberships", "search"}
    /\ pgState = "running"
    /\ \E items \in PageChoices, segs \in ServerLinks :
        /\ Len(pgReqs) + 1 >= MaxPages => ~HasNext(segs)
        /\ pgPending' = items
        /\ pgServed' = pgServed \o items
        /\ pgLinkSegs' = segs
        /\ pgLink' = Render(segs, TRUE)
        /\ itemsLeft' = IF pc = "search" THEN itemsLeft - Len(items) ELSE itemsLeft
    /\ pgReqs' = Append(pgReqs, [url |-> pgUrl, params |-> RequestParams(pgFirst)])
    /\ pgFirst' = FALSE
    /\ pgState' = "yielding"
    /\ UNCHANGED <<server, token, wanted, pc, errKind, memberships, orgs, orgIdx, kindIdx, pgUrl,
                   pgYielded, aggVars, queryLog, fileVars, linkVars, orgVars, reqVars>>

\* list(...) takes the next membership the generator yields.
CollectMembership ==
    /\ pc = "memberships"
    /\ pgState = "yielding"
    /\ pgPending # <<>>
    /\ memberships' = Append(memberships, Head(pgPending))
    /\ pgYielded' = Append(pgYielded, Head(pgPending))
    /\ pgPending' = Tail(pgPending)
    /\ UNCHANGED <<server, token, wanted, pc, errKind, orgs, orgIdx, kindIdx,
                   pgUrl, pgFirst, pgState, pgLink, pgLinkSegs, pgReqs, pgServed,
                   aggVars, queryLog, itemsLeft, fileVars, linkVars, orgVars, reqVars>>

\* Where the record made from the next yielded item comes from.
Source == <<orgIdx, kindIdx, Len(pgReqs), Len(pgYielded) + 1>>

\* The loop body of lines 233-248 on the next item of an issue/PR query.
ProcessIssueItem ==
    /\ pc = "search"
    /\ CurKind # COMMITS
    /\ pgState = "yielding"
    /\ pgPending # <<>>
    /\ LET rec == NormalizeIssue(CurKind, CurOrg, Head(pgPending))
       IN /\ results' = AddResults(results, seen, rec, IssueKey(rec))
          /\ seen' = AddSeen(seen, rec, IssueKey(rec))
          /\ resultSrc' = IF results' = results THEN resultSrc ELSE Append(resultSrc, Source)
    /\ pgYielded' = Append(pgYielded, Head(pgPending))
    /\ pgPending' = Tail(pgPending)
    /\ UNCHANGED <<server, token, wanted, pc, errKind, memberships, orgs, orgIdx, kindIdx,
                   pgUrl, pgFirst, pgState, pgLink, pgLinkSegs, pgReqs, pgServed,
                   queryLog, itemsLeft, fileVars, linkVars, orgVars, reqVars>>

\* The loop body of lines 254-271 on the next item of the commits query.
ProcessCommitItem ==
    /\ pc = "search"
    /\ CurKind = COMMITS
    /\ pgState = "yielding"
    /\ pgPending # <<>>
    /\ ~CommitRaises(Head(pgPending))
    /\ LET rec == NormalizeCommit(CurOrg, Head(pgPending))
       IN /\ results' = AddResults(results, seen, rec, CommitKey(rec))
          /\ seen' = AddSeen(seen, rec, CommitKey(rec))
          /\ resultSrc' = IF results' = results THEN resultSrc ELSE Append(resultSrc, Source)
    /\ pgYielded' = Append(pgYielded, Head(pgPending))
    /\ pgPending' = Tail(pgPending)
    /\ UNCHANGED <<server, token, wanted, pc, errKind, memberships, orgs, orgIdx, kindIdx,
                   pgUrl, pgFirst, pgState, pgLink, pgLinkSegs, pgReqs, pgServed,
                   queryLog, itemsLeft, fileVars, linkVars, orgVars, reqVars>>

\* Line 267 raises IndexError on the next commits item: the run ends there.
CommitItemRaises ==
    /\ pc = "search"
    /\ CurKind = COMMITS
    /\ pgState = "yielding"
    /\ pgPending # <<>>
    /\ CommitRaises(Head(pgPending))
    /\ pc' = "error"
    /\ errKind' = "IndexError"
    /\ pgYielded' = Append(pgYielded, Head(pgPending))
    /\ pgPending' = Tail(pgPending)
    /\ UNCHANGED <<server, token, wanted, memberships, orgs, orgIdx, kindIdx,
                   pgUrl, pgFirst, pgState, pgLink, pgLinkSegs, pgReqs, pgServed,
                   aggVars, queryLog, itemsLeft, fileVars, linkVars, orgVars, reqVars>>

\* paginate (line 92 and the loop test): the page is exhausted, follow the Link header.
AdvancePage ==
    /\ pc \in {"memberships", "search"}
    /\ pgState = "yielding"
    /\ pgPending = <<>>
    /\ pgUrl' = parse_next_link(pgLink)
    /\ pgState' = IF pgUrl' = NoUrl THEN "finished" ELSE "running"
    /\ UNCHANGED <<server, token, wanted, pc, errKind, memberships, orgs, orgIdx, kindIdx,
                   pgFirst, pgPending, pgLink, pgLinkSegs, pgReqs, pgYielded, pgServed,
                   aggVars, queryLog, itemsLeft, fileVars, linkVars, orgVars, reqVars>>

\* A new paginate generator for query (o, k) of the resolved organizations os.
StartQuery(os, o, k) ==
    /\ orgIdx' = o
    /\ kindIdx' = k
    /\ queryLog' = Append(queryLog, <<os[o], KINDS[k]>>)
    /\ pgUrl' = SearchPath(KINDS[k])
    /\ pgFirst' = TRUE
    /\ pgState' = "running"
    /\ pgPending' = <<>>
    /\ pgLink' = <<>>
    /\ pgLinkSegs' = <<>>
    /\ pgReqs' = <<>>
    /\ pgYielded' = <<>>
    /\ pgServed' = <<>>

\* Lines 166-193: the membership listing is complete; resolve the organizations and
\* either return 0 (none) or enter the query loop.
ResolveOrganizations ==
    /\ pc = "memberships"
    /\ pgState = "finished"
    /\ orgs' = ResolveOrgs(Logins(memberships), wanted)
    /\ IF orgs' = <<>>
       THEN /\ pc' = "exit0"
            /\ UNCHANGED <<orgIdx, kindIdx, queryLog, pgVars>>
       ELSE /\ pc' = "search"
            /\ StartQuery(orgs', 1, 1)
    /\ UNCHANGED <<server, token, wanted, errKind, memberships, aggVars, itemsLeft,
                   fileVars, linkVars, orgVars, reqVars>>

\* A query's generator is exhausted: progress.advance, then the next kind, the next
\* organization, or the end of the loop.
NextQuery ==
    /\ pc = "search"
    /\ pgState = "finished"
    /\ IF kindIdx < Len(KINDS)
       THEN /\ StartQuery(orgs, orgIdx, kindIdx + 1)
            /\ pc' = pc
       ELSE IF orgIdx < Len(orgs)
       THEN /\ StartQuery(orgs, orgIdx + 1, 1)
            /\ pc' = pc
       ELSE /\ pc' = "write_json"
            /\ UNCHANGED <<orgIdx, kindIdx, queryLog, pgVars>>
    /\ UNCHANGED <<server, token, wanted, errKind, memberships, orgs, aggVars, itemsLeft,
                   fileVars, linkVars, orgVars, reqVars>>

\* Lines 275-277.
WriteJson ==
    /\ pc = "write_json"
    /\ jsonFile' = [written |-> TRUE, rows |-> results]
    /\ pc' = "write_csv"
    /\ UNCHANGED <<server, token, wanted, errKind, memberships, orgs, orgIdx, kindIdx,
                   pgVars, aggVars, queryLog, itemsLeft, csvFile, linkVars, orgVars, reqVars>>

\* Lines 280-300, then return 0.
WriteCsv ==
    /\ pc = "write_csv"
    /\ csvFile' = [written |-> TRUE, rows |-> [i \in 1..Len(results) |-> CsvRow(results[i])]]
    /\ pc' = "done"
    /\ UNCHANGED <<server, token, wanted, errKind, memberships, orgs, orgIdx, kindIdx,
                   pgVars, aggVars, queryLog, itemsLeft, jsonFile, linkVars, orgVars, reqVars>>

RunIdle ==
    /\ server = "paged" /\ token = FALSE /\ wanted = {} /\ pc = "idle" /\ errKind = None
    /\ memberships = <<>> /\ orgs = <<>> /\ orgIdx = 0 /\ kindIdx = 0
    /\ pgUrl = NoUrl /\ pgFirst = TRUE /\ pgState = "idle" /\ pgPending = <<>>
    /\ pgLink = <<>> /\ pgLinkSegs = <<>> /\ pgReqs = <<>> /\ pgYielded = <<>>
    /\ pgServed = <<>> /\ results = <<>> /\ seen = {} /\ resultSrc = <<>>
    /\ queryLog = <<>> /\ itemsLeft = 0 /\ jsonFile = NoFile /\ csvFile = NoFile

ReqIdle ==
    /\ now = 0 /\ rqPc = "idle" /\ rqUrl = "" /\ rqParams = "none" /\ rqSends = <<>>
    /\ rqSentAt = 0 /\ rqResp = NoResp /\ rqCause = NoResp /\ rqRetries = 0
    /\ rqSleepFor = 0 /\ rqSleptAt = 0 /\ rqWake = 0

LinkIdle == lhSegs = <<>> /\ lhHeader = <<>> /\ lhResult = NoUrl /\ lhPc = "idle"
OrgIdle == roMembers = <<>> /\ roWanted = {} /\ roOrgs = <<>> /\ roPc = "idle"

(***************************************************************************)
(* Specifications                                                          *)
(***************************************************************************)
\* The export run against the "paged" server.
Init == RunInit /\ server = "paged" /\ LinkIdle /\ OrgIdle /\ ReqIdle
Next ==
    \/ MissingToken
    \/ StartRun
    \/ RequestRetry
    \/ RequestFails
    \/ MeReturns
    \/ FetchPage
    \/ CollectMembership
    \/ ProcessIssueItem
    \/ ProcessCommitItem
    \/ CommitItemRaises
    \/ AdvancePage
    \/ ResolveOrganizations
    \/ NextQuery
    \/ WriteJson
    \/ WriteCsv
Spec == Init /\ [][Next]_vars

\* The export run against the "varied" server.
InitVaried == RunInit /\ server = "varied" /\ LinkIdle /\ OrgIdle /\ ReqIdle
SpecVaried == InitVaried /\ [][Next]_vars

\* parse_next_link on one header.
InitLink == LinkInit /\ OrgIdle /\ ReqIdle /\ RunIdle
NextLink == ParseWellFormed \/ ParseRaw
SpecLink == InitLink /\ [][NextLink]_vars

\* Organization resolution on one membership listing and allow-list.
InitOrgs == OrgInit /\ LinkIdle /\ ReqIdle /\ RunIdle
NextOrgs == ResolveStep
SpecOrgs == InitOrgs /\ [][NextOrgs]_vars

\* One call of _request.
InitReq == ReqInit /\ LinkIdle /\ OrgIdle /\ RunIdle
NextReq ==
    \/ Tick
    \/ SendGet
    \/ NetworkError
    \/ RateLimitSleep
    \/ WakeUp
    \/ RaiseStatus
    \/ ReturnResponse
SpecReq == InitReq /\ [][NextReq]_vars

(***************************************************************************)
(* Properties of the export run (Spec, SpecVaried)                         *)
(***************************************************************************)
\* The next segments of a well-formed header whose URL holds no comma.
CleanNext(segs) == {i \in 1..Len(segs) : segs[i].rel = REL_NEXT /\ ~HasComma(segs[i].url)}

Least(S) == CHOOSE i \in S : \A j \in S : i <= j

IsPrefix(s, t) == Len(s) <= Len(t) /\ SubSeq(t, 1, Len(s)) = s

DedupKey(rec) == <<rec.kind, UniqueKey(rec)>>
KeysOf(res) == {DedupKey(res[i]) : i \in 1..Len(res)}

NoDuplicateKeys ==
    \A i, j \in 1..Len(results) : i < j => DedupKey(results[i]) # DedupKey(results[j])

\* The record the loop body makes of the item the generator yields next.
NextRecord ==
    IF CurKind = COMMITS THEN NormalizeCommit(CurOrg, Head(pgPending))
    ELSE NormalizeIssue(CurKind, CurOrg, Head(pgPending))

\* A step in which the loop body ran on one item and added or discarded its record.
ItemStep ==
    /\ pc = "search" /\ pc' = "search"
    /\ pgState = "yielding"
    /\ pgYielded' # pgYielded

\* C1: results never holds two records with the same dedup key; results only grows
\* at its end; a record whose key an earlier record has is discarded, results
\* unchanged, and a record with a new key is appended.
C1_FirstEncounteredKept ==
    /\ [](NoDuplicateKeys /\ seen = KeysOf(results))
    /\ [][/\ IsPrefix(results, results')
          /\ ItemStep =>
                IF DedupKey(NextRecord) \in KeysOf(results)
                THEN results' = results
                ELSE results' = Append(results, NextRecord)]_vars

\* The second of two items with the same URL and different titles was discarded.
C1_Witness ==
    /\ pc = "search"
    /\ Len(pgYielded) = 2
    /\ pgYielded[1].html_url = pgYielded[2].html_url
    /\ pgYielded[1].title # pgYielded[2].title
    /\ Len(results) = 1
    /\ results[1].title = pgYielded[1].title

Present(v) == ~Falsy(v)

\* C2 as stated: for every kind, commits included, the key of a record with a URL is
\* (kind, URL), so two same-kind records that both have a URL have different URLs.
C2_UrlFirstEveryKind ==
    /\ \A i \in 1..Len(results) :
          Present(results[i].url) => <<results[i].kind, results[i].url>> \in seen
    /\ \A i, j \in 1..Len(results) :
          i < j /\ results[i].kind = results[j].kind
                /\ Present(results[i].url) /\ Present(results[j].url)
            => results[i].url # results[j].url

\* C2 amended: for the issue/PR kinds the key is the URL when present, else
\* organization:kind:repo#number; for commits it is the SHA when present, else the URL
\* when present, else the serialization.  Each record has that one key in seen.  So
\* two issue/PR records of a kind that both have a URL have different URLs, and two
\* commits that both have a SHA have different SHAs (their URLs may be equal).
C2_KeyByKind ==
    /\ \A i \in 1..Len(results) :
          LET r == results[i]
          IN IF r.kind # COMMITS
             THEN /\ Present(r.url) => <<r.kind, r.url>> \in seen
                  /\ Falsy(r.url) =>
                        <<r.kind, r.org \o ":" \o r.kind \o ":" \o r.repo \o "#"
                                    \o ToString(r.number)>> \in seen
             ELSE /\ Present(r.sha) => <<r.kind, r.sha>> \in seen
                  /\ Falsy(r.sha) /\ Present(r.url) => <<r.kind, r.url>> \in seen
                  /\ Falsy(r.sha) /\ Falsy(r.url) => <<r.kind, JsonDumps(r)>> \in seen
    /\ Cardinality(seen) = Len(results)
    /\ \A i, j \in 1..Len(results) :
          i < j /\ results[i].kind = results[j].kind =>
             IF results[i].kind # COMMITS
             THEN Present(results[i].url) /\ Present(results[j].url)
                    => results[i].url # results[j].url
             ELSE Present(results[i].sha) /\ Present(results[j].sha)
                    => results[i].sha # results[j].sha

\* Two commits with one URL and different SHAs are both kept.
C2_Witness ==
    /\ Len(results) = 2
    /\ results[1].kind = COMMITS /\ results[2].kind = COMMITS
    /\ Present(results[1].url) /\ results[1].url = results[2].url
    /\ Present(results[1].sha) /\ Present(results[2].sha)
    /\ results[1].sha # results[2].sha

\* C8: normalizing a commits item with absent data never raises.
C8_CommitNeverRaises == ~(pc = "error" /\ errKind = "IndexError")

\* The generator in progress belongs to the membership listing until a query starts.
PaginatePath == IF orgIdx = 0 THEN MEMBERSHIPS_PATH ELSE SearchPath(CurKind)
PaginateParams ==
    IF orgIdx = 0 THEN MembershipParams ELSE SearchParams(CurKind, CurOrg)

C5_ItemsAndParams ==
    /\ pgYielded \o pgPending = pgServed
    /\ \A i \in 1..Len(pgReqs) :
          pgReqs[i].params = (IF i = 1 THEN PaginateParams ELSE NoParams)
    /\ pgReqs # <<>> => pgReqs[1].url = PaginatePath

\* C5 as stated: the items yielded are the fetched pages' items in order, the first
\* page is fetched with the params and later pages with none, and the sequence ends
\* exactly when a fetched page's header carries no next link (otherwise the next
\* request goes to that link).
C5_StopsAtNoNextLink ==
    /\ C5_ItemsAndParams
    /\ pgState = "finished" => ~HasNext(pgLinkSegs)
    /\ pgState = "running" /\ pgReqs # <<>> =>
          HasNext(pgLinkSegs) /\ pgUrl = FirstNextUrl(pgLinkSegs)

\* C5 amended: as stated, except that the sequence ends exactly when a fetched page's
\* header carries no next link whose URL is free of commas (otherwise the next request
\* goes to the first such link).
C5_StopsAtNoCleanNextLink ==
    /\ C5_ItemsAndParams
    /\ pgState = "finished" => CleanNext(pgLinkSegs) = {}
    /\ pgState = "running" /\ pgReqs # <<>> =>
          /\ CleanNext(pgLinkSegs) # {}
          /\ pgUrl = pgLinkSegs[Least(CleanNext(pgLinkSegs))].url

\* A search query ended after two pages that carried two items.
C5_Witness ==
    /\ pc = "search"
    /\ pgState = "finished"
    /\ Len(pgReqs) = 2
    /\ pgReqs[2].url = <<"page3">>
    /\ Len(pgYielded) = 2

\* The queries a run with the organizations os issues, in order.
EXPECTED_KINDS == <<"prs_opened", "prs_merged", "prs_reviewed", "prs_commented",
                    "issues_opened", "involves_me", "commits">>
RECURSIVE ExpectedQueries(_)
ExpectedQueries(os) ==
    IF os = <<>> THEN <<>>
    ELSE [k \in 1..Len(EXPECTED_KINDS) |-> <<Head(os), EXPECTED_KINDS[k]>>]
            \o ExpectedQueries(Tail(os))

AllQueriesDone ==
    /\ orgs # <<>>
    /\ queryLog = ExpectedQueries(orgs)
    /\ pgState = "finished"
    /\ pgPending = <<>>

\* C7: an output file is written only when the last query of the last organization
\* has finished paginating, and a run that ended in an error while fetching or
\* normalizing has written no file.
C7_WriteOnlyAfterFetching ==
    /\ jsonFile.written \/ csvFile.written =>
          pc \in {"write_csv", "done"} /\ AllQueriesDone
    /\ pc = "error" => ~jsonFile.written /\ ~csvFile.written

\* A run ended in an error after it had collected a record.
C7_Witness == pc = "error" /\ Len(results) >= 1 /\ ~jsonFile.written

QUERIES_PER_ORG == 7

LexLess(a, b) ==
    \E k \in 1..Len(a) : a[k] < b[k] /\ \A h \in 1..(k - 1) : a[h] = b[h]

\* C10: the queries issued are, in order, a prefix of (organizations in resolved
\* order) x (the seven kinds in their order), all 7*N of them once the loop is left;
\* a query begins only when the one before has finished paginating; the records are
\* in organization, query, page and item order.
C10_SequentialQueries ==
    /\ [](/\ IsPrefix(queryLog, ExpectedQueries(orgs))
          /\ pc \in {"write_json", "write_csv", "done"} =>
                /\ queryLog = ExpectedQueries(orgs)
                /\ Len(queryLog) = QUERIES_PER_ORG * Len(orgs)
          /\ Len(resultSrc) = Len(results)
          /\ \A i \in 1..Len(results) :
                /\ results[i].org = orgs[resultSrc[i][1]]
                /\ results[i].kind = EXPECTED_KINDS[resultSrc[i][2]]
          /\ \A i, j \in 1..Len(resultSrc) : i < j => LexLess(resultSrc[i], resultSrc[j]))
    /\ [][queryLog' # queryLog => pgState = "finished" /\ pgPending = <<>>]_vars

\* A run over two organizations, listed B before A, ended with a record of each.
C10_Witness ==
    /\ pc = "done"
    /\ orgs = <<"B", "A">>
    /\ Len(results) = 2
    /\ results[1].org = "B"
    /\ results[2].org = "A"

(***************************************************************************)
(* Properties of parse_next_link (SpecLink)                                *)
(***************************************************************************)
\* C4 as stated: whenever a well-formed header holds a rel="next" segment, the parser
\* returns the URL of such a segment, whatever the URL; a header holding none (or a
\* raw header without the rel="next" marker) gives the absent value.
C4_AnyUrl ==
    /\ lhPc = "parsed" /\ HasNext(lhSegs) =>
          \E i \in 1..Len(lhSegs) : lhSegs[i].rel = REL_NEXT /\ lhResult = lhSegs[i].url
    /\ lhPc = "parsed" /\ ~HasNext(lhSegs) => lhResult = NoUrl

\* C4 amended: the parser returns the URL of the first rel="next" segment whose URL
\* holds no comma; when the header has no such segment (no next segment at all, only
\* next segments whose URL holds a comma, an empty header, or a raw header without
\* the rel="next" marker) it returns the absent value.
C4_CommaFreeUrl ==
    /\ lhPc = "parsed" /\ CleanNext(lhSegs) # {} =>
          lhResult = lhSegs[Least(CleanNext(lhSegs))].url
    /\ lhPc = "parsed" /\ CleanNext(lhSegs) = {} => lhResult = NoUrl
    /\ lhPc = "parsedraw" /\ (\A i \in 1..Len(lhHeader) : lhHeader[i] # REL_NEXT) =>
          lhResult = NoUrl

\* A header whose second segment is the next one, after a prev segment, parsed.
C4_Witness ==
    /\ lhPc = "parsed"
    /\ Len(lhSegs) = 2
    /\ lhSegs[1].rel = REL_PREV
    /\ lhSegs[2].rel = REL_NEXT
    /\ lhSegs[2].url # lhSegs[1].url
    /\ lhResult = lhSegs[2].url

(***************************************************************************)
(* Properties of organization resolution (SpecOrgs)                        *)
(***************************************************************************)
\* s is t with some elements left out: the positions of t that are kept, in order.
RECURSIVE KeepIn(_, _)
KeepIn(t, allow) ==
    IF t = <<>> THEN <<>>
    ELSE LET rest == KeepIn(SubSeq(t, 1, Len(t) - 1), allow)
         IN IF t[Len(t)] \in allow THEN Append(rest, t[Len(t)]) ELSE rest

\* C9: the resolved organizations are exactly the membership listing's elements that
\* are in the allow-list, in listing order; allow-list entries that are no member are
\* ignored; without an allow-list the listing is unchanged.
C9_OrderPreservingIntersection ==
    roPc = "resolved" =>
        /\ roWanted = {} => roOrgs = roMembers
        /\ roWanted # {} =>
            /\ roOrgs = KeepIn(roMembers, roWanted)
            /\ \A i \in 1..Len(roOrgs) : roOrgs[i] \in roWanted /\ roOrgs[i] \in MEMBER_ORGS
            /\ \A o \in roWanted :
                  Cardinality({i \in 1..Len(roOrgs) : roOrgs[i] = o})
                    = Cardinality({i \in 1..Len(roMembers) : roMembers[i] = o})

\* Two listed organizations are both allowed and a third is not: the order of the
\* two is the listing's.
C9_Witness ==
    /\ roPc = "resolved"
    /\ roMembers = <<"B", "C", "A">>
    /\ roWanted = {"A", "B", "D"}
    /\ roOrgs = <<"B", "A">>

(***************************************************************************)
(* Properties of _request (SpecReq)                                        *)
(***************************************************************************)
Success(status) == 200 <= status /\ status < 300

\* C3 as stated: every response that is not 2xx and not a rate-limit 403 makes the
\* call fail; so a call returns only a 2xx response.
C3_EveryNon2xxFails == rqPc = "returned" => Success(rqResp.status)

\* C3 amended: a response with status 400..599 that is not a rate-limit 403 makes the
\* call fail at once with the HTTP-status error, with no further request; a response
\* with a status below 400 (1xx and 3xx included) is returned to the caller.
C3_ErrorStatusFails ==
    /\ rqPc = "returned" => rqResp.status < 400 /\ ~RateLimited(rqResp)
    /\ rqPc = "raised" =>
          /\ 400 <= rqResp.status /\ rqResp.status < 600
          /\ ~RateLimited(rqResp)
    /\ rqPc \in {"returned", "raised"} => Len(rqSends) = rqRetries + 1

\* A 404 has ended the call with the error, after one request.
C3_Witness == rqPc = "raised" /\ rqResp.status = 404 /\ Len(rqSends) = 1

\* C6: after a 403 with no quota left the client sleeps max(0, reset - now + 5)
\* seconds, so the next request is sent no earlier than reset + 5 seconds; it is the
\* same request (URL and params); the call does not fail on that response, and what it
\* returns is a later response that is not rate-limited.
C6_RateLimitWait ==
    /\ rqPc = "sleep" /\ RateLimited(rqCause) =>
          rqSleepFor = Max(0, ResetOf(rqCause) - (rqSleptAt \div TicksPerSecond) + RATE_LIMIT_MARGIN)
    /\ rqPc \in {"wait", "returned", "raised"} /\ RateLimited(rqCause) =>
          rqSentAt >= (ResetOf(rqCause) + RATE_LIMIT_MARGIN) * TicksPerSecond
    /\ \A i \in 1..Len(rqSends) : rqSends[i] = [url |-> rqUrl, params |-> rqParams]
    /\ rqPc \in {"returned", "raised"} => ~RateLimited(rqResp)
    /\ RateLimited(rqResp) => rqPc \in {"sleep", "send", "wait"}

\* A rate-limited request was repeated and the repeat was returned.
C6_Witness ==
    /\ rqPc = "returned"
    /\ RateLimited(rqCause)
    /\ ResetOf(rqCause) = 4
    /\ Len(rqSends) = 2
    /\ Success(rqResp.status)
====
